---- MODULE Spec2Model ----
(***************************************************************************)
(* Model of python/mic_stream_socketio.py: a bidirectional audio streamer. *)
(* The capture callback encodes microphone blocks into send_q, the sender  *)
(* loop emits them, the receiver handler decodes inbound chunks into       *)
(* play_q and the playback callback drains play_q into the output buffer.  *)
(* The command listener and main drive the is_muted and running flags.     *)
(***************************************************************************)
EXTENDS Integers, Sequences, FiniteSets, TLC

(***************************************************************************)
(* Bounds of the model.  queue.Queue(maxsize=n) is parametric in n; the    *)
(* source uses maxsize=128 for send_q and maxsize=256 for play_q, the      *)
(* model checks the same queue discipline with small capacities.           *)
(***************************************************************************)
SEND_Q_MAXSIZE == 2

PLAY_Q_MAXSIZE == 2

\* device and relay events of one run: capture callbacks that pass the mute
\* check, receiver handler calls and playback callbacks
MaxEvents == 4

(***************************************************************************)
(* Sample conversion (audio_capture_callback, lines 99-106).               *)
(***************************************************************************)
\* astype(np.int16) of a wider integer keeps the low 16 bits (two's complement)
Wrap16(v) == ((v + 32768) % 65536) - 32768

\* C cast of a float to an integer truncates toward zero
TruncDiv(n, d) == IF n >= 0 THEN n \div d ELSE -((-n) \div d)

\* floats are modelled as halves: the float n stands for n / 2
FLOAT_DEN == 2

Clip(n, lo, hi) == IF n < lo THEN lo ELSE IF n > hi THEN hi ELSE n

\* np.clip(indata, -1.0, 1.0) then (arr * 32767).astype(np.int16)
FloatToInt16(n) == Wrap16(TruncDiv(Clip(n, -FLOAT_DEN, FLOAT_DEN) * 32767, FLOAT_DEN))

\* the int16 block the callback encodes, by dtype of indata
ToInt16(indata) ==
    IF indata.dtype = "int16" THEN indata.data
    ELSE IF indata.dtype = "float"
         THEN [i \in 1..Len(indata.data) |-> FloatToInt16(indata.data[i])]
         ELSE [i \in 1..Len(indata.data) |-> Wrap16(indata.data[i])]

(***************************************************************************)
(* Byte and base64 encodings.  A base64 string is a sequence of character  *)
(* codes: 0..63 the alphabet, PAD the '=' sign, JUNK a character outside   *)
(* the alphabet.                                                           *)
(***************************************************************************)
PAD == 64

JUNK == 65

\* mutant of ToBytes: the two bytes of a sample in big-endian order
ToBytesBigEndian(samples) ==
    [i \in 1..(2 * Len(samples)) |->
        LET u == samples[(i + 1) \div 2] % 65536
        IN  IF i % 2 = 1 THEN u \div 256 ELSE u % 256]

\* int16.tobytes(): two bytes per sample, little-endian, two's complement
ToBytes(samples) ==
    [i \in 1..(2 * Len(samples)) |->
        LET u == samples[(i + 1) \div 2] % 65536
        IN  IF i % 2 = 1 THEN u % 256 ELSE u \div 256]

Pow64(k) == IF k = 0 THEN 1 ELSE IF k = 1 THEN 64 ELSE IF k = 2 THEN 4096 ELSE 262144

\* base64.b64encode(raw): 3 bytes -> 4 characters, '=' padding on the last group
B64Encode(bytes) ==
    LET n == Len(bytes)
        groups == (n + 2) \div 3
        ByteAt(p) == IF p <= n THEN bytes[p] ELSE 0
    IN  [j \in 1..(4 * groups) |->
            LET g == (j - 1) \div 4
                k == (j - 1) % 4
                have == IF n - 3 * g >= 3 THEN 3 ELSE n - 3 * g
                v == ByteAt(3 * g + 1) * 65536 + ByteAt(3 * g + 2) * 256 + ByteAt(3 * g + 3)
            IN  IF k > have THEN PAD ELSE (v \div Pow64(3 - k)) % 64]

DecodeError == [ok |-> FALSE, bytes |-> <<>>]

RECURSIVE A2B(_, _, _, _, _, _)
\* binascii.a2b_base64 without strict mode, as base64.b64decode(s) calls it:
\* characters outside the alphabet are skipped, a completed pad sequence ends
\* the parse, and a partial quad at the end of the input is an error
A2B(s, i, quad_pos, leftchar, pads, out) ==
    IF i > Len(s)
    THEN IF quad_pos # 0 THEN DecodeError ELSE [ok |-> TRUE, bytes |-> out]
    ELSE LET c == s[i] IN
         IF c = PAD
         THEN IF quad_pos >= 2 /\ quad_pos + pads + 1 >= 4
              THEN [ok |-> TRUE, bytes |-> out]
              ELSE A2B(s, i + 1, quad_pos, leftchar,
                       IF quad_pos >= 2 THEN pads + 1 ELSE pads, out)
         ELSE IF c >= 64
         THEN A2B(s, i + 1, quad_pos, leftchar, pads, out)
         ELSE IF quad_pos = 0
              THEN A2B(s, i + 1, 1, c, 0, out)
         ELSE IF quad_pos = 1
              THEN A2B(s, i + 1, 2, c % 16, 0, Append(out, leftchar * 4 + c \div 16))
         ELSE IF quad_pos = 2
              THEN A2B(s, i + 1, 3, c % 4, 0, Append(out, leftchar * 16 + c \div 4))
         ELSE A2B(s, i + 1, 0, 0, 0, Append(out, leftchar * 64 + c))

\* base64.b64decode(data_b64)
B64Decode(s) == A2B(s, 1, 0, 0, 0, <<>>)

\* mutant of FromBuffer: a trailing odd byte is ignored
FromBufferTruncating(bytes) ==
    [ok |-> TRUE,
     arr |-> [i \in 1..(Len(bytes) \div 2) |->
                 Wrap16(bytes[2 * i - 1] + 256 * bytes[2 * i])]]

\* np.frombuffer(raw, dtype=np.int16): ValueError unless len(raw) is a
\* multiple of 2; little-endian two's complement samples otherwise
FromBuffer(bytes) ==
    IF Len(bytes) % 2 # 0
    THEN [ok |-> FALSE, arr |-> <<>>]
    ELSE [ok |-> TRUE,
          arr |-> [i \in 1..(Len(bytes) \div 2) |->
                      Wrap16(bytes[2 * i - 1] + 256 * bytes[2 * i])]]


(***************************************************************************)
(* Inputs.                                                                 *)
(***************************************************************************)
\* blocks the input device hands to audio_capture_callback
CaptureInputs ==
    { [dtype |-> "int16", data |-> <<258, -2>>],
      [dtype |-> "float", data |-> <<3, -1>>] }

Str(s) == [t |-> "str", s |-> s]

NoneVal == [t |-> "none", s |-> <<>>]

IntVal == [t |-> "int", s |-> <<>>]

\* inbound 'audio-chunk' payloads that do not come from this program's sender:
\* dict |-> TRUE is an object whose 'data' entry is `data` (NoneVal when the
\* entry is missing), dict |-> FALSE is a bare value
FixedPayloads ==
    { [dict |-> TRUE,  data |-> Str(<<>>)],
      [dict |-> TRUE,  data |-> NoneVal],
      [dict |-> FALSE, data |-> Str(<<>>)],
      [dict |-> TRUE,  data |-> IntVal],
      [dict |-> TRUE,  data |-> Str(<<0>>)],
      [dict |-> TRUE,  data |-> Str(<<0, 0, 0, 0>>)],
      [dict |-> FALSE, data |-> Str(<<1, 16, JUNK>>)],
      [dict |-> TRUE,  data |-> Str(B64Encode(ToBytes(<<5>>)))],
      [dict |-> TRUE,  data |-> Str(B64Encode(ToBytes(<<1, 2, 3>>)))],
      [dict |-> FALSE, data |-> Str(B64Encode(ToBytes(<<7, 8>>)))] }

\* frames an output device may request from the playback callback
FrameChoices == {0, 1, 2}

\* CHANNELS as configured on the command line or in the environment
ChannelChoices == {1, 2}

\* the inputs of the whole-program specification, one of each kind
CoreCaptureInputs == { [dtype |-> "int16", data |-> <<258, -2>>] }

CorePayloads == { [dict |-> TRUE, data |-> Str(B64Encode(ToBytes(<<1, 2, 3>>)))] }

CoreFrameChoices == {1}

(***************************************************************************)
(* State.                                                                  *)
(***************************************************************************)
VARIABLES
    CHANNELS,     \* session configuration, fixed at startup
    is_muted,     \* global flag written by command_listener
    running,      \* global flag cleared by command_listener and main
    send_q,       \* queue.Queue of base64 strings
    play_q,       \* queue.Queue of int16 arrays
    main_pc,      \* position of main()
    in_open,      \* the sd.InputStream of main is open
    disc,         \* outcome of main's sio.disconnect()
    cmd_pc,       \* position of command_listener
    net_pc,       \* position of network_sender_loop
    net_b64,      \* its local b64
    pt_pc,        \* position of audio_playback_loop
    out_open,     \* the sd.OutputStream of the playback thread is open
    cap_pc,       \* position of audio_capture_callback
    cap_in,       \* its indata
    cap_b64,      \* its local b64
    cap_res,      \* how the last capture callback ended
    recv_res,     \* how the last receiver handler call ended
    recv_failed,  \* history: some receiver handler call caught an exception
    pb_pc,        \* position of the playback callback
    pb_frames,    \* its frames argument
    out_buf,      \* its local out_buf
    got,          \* its local got
    rem,          \* its local rem
    outdata,      \* what the playback callback last wrote to the device
    nev,          \* device and relay events so far
    n_cap,        \* history: capture callbacks that produced a chunk so far
    h_enq,        \* history: chunks inserted into send_q, with their indata
    h_deq,        \* history: chunks the sender loop dequeued
    h_emit,       \* history: sio.emit calls of the sender loop and their outcome
    stop_emit,    \* history: emissions made when running was cleared
    muted_puts,   \* history: inserts into send_q since is_muted was last set
    mute_enq,     \* history: chunks inserted into send_q when is_muted was last set
    pb_q0,        \* history: play_q when the playback callback was entered
    pb_popped,    \* history: chunks the playback callback popped, in order
    pb_re,        \* history: outcome of its remainder re-insert
    pb_raced,     \* history: the receiver inserted while the callback ran
    pb_win        \* history: the receiver inserted between a pop and its re-insert

vars == << CHANNELS, is_muted, running, send_q, play_q, main_pc, in_open, disc,
           cmd_pc, net_pc, net_b64, pt_pc, out_open, cap_pc, cap_in, cap_b64,
           cap_res, recv_res, recv_failed, pb_pc, pb_frames, out_buf, got, rem,
           outdata, nev, n_cap, h_enq, h_deq, h_emit, stop_emit, muted_puts,
           mute_enq, pb_q0, pb_popped, pb_re, pb_raced, pb_win >>

mainVars == << main_pc, in_open, disc >>

netVars == << net_pc, net_b64, h_deq, h_emit >>

capVars == << cap_pc, cap_in, cap_b64, cap_res, h_enq >>

pbVars == << pb_pc, pb_frames, out_buf, got, rem, outdata, pb_q0, pb_popped, pb_re >>

ptVars == << pt_pc, out_open >>

recvVars == << recv_res, recv_failed >>

NoInput == [dtype |-> "none", data |-> <<>>]

Init ==
    /\ CHANNELS \in ChannelChoices
    /\ is_muted = FALSE
    /\ running = TRUE
    /\ send_q = <<>>
    /\ play_q = <<>>
    /\ main_pc = "connect"
    /\ in_open = FALSE
    /\ disc = "none"
    /\ cmd_pc = "unstarted"
    /\ net_pc = "unstarted"
    /\ net_b64 = <<>>
    /\ pt_pc = "unstarted"
    /\ out_open = FALSE
    /\ cap_pc = "idle"
    /\ cap_in = NoInput
    /\ cap_b64 = <<>>
    /\ cap_res = "none"
    /\ recv_res = "none"
    /\ recv_failed = FALSE
    /\ pb_pc = "idle"
    /\ pb_frames = 0
    /\ out_buf = <<>>
    /\ got = 0
    /\ rem = <<>>
    /\ outdata = <<>>
    /\ nev = 0
    /\ h_enq = <<>>
    /\ h_deq = <<>>
    /\ h_emit = <<>>
    /\ muted_puts = 0
    /\ pb_q0 = <<>>
    /\ pb_popped = <<>>
    /\ pb_re = "none"
    /\ pb_raced = FALSE
    /\ mute_enq = 0
    /\ n_cap = 0
    /\ pb_win = FALSE
    /\ stop_emit = 0

\* the process lives until main returns; its daemon threads die with it
Alive == main_pc # "done"

(***************************************************************************)
(* main (lines 187-217).                                                   *)
(***************************************************************************)
\* sio.connect: a failure is caught and main continues (lines 190-193)
MainConnect ==
    /\ main_pc = "connect"
    /\ main_pc' = "start_net"
    /\ UNCHANGED << CHANNELS, is_muted, running, stop_emit, send_q, play_q, in_open, disc, cmd_pc,
                    netVars, ptVars, capVars, recvVars, pbVars, nev, n_cap, muted_puts, mute_enq,
                    pb_raced, pb_win >>

\* t_net.start(), t_cmd.start(), t_play.start() (lines 195-200)
MainStartThreads ==
    /\ \/ /\ main_pc = "start_net"
          /\ main_pc' = "start_cmd"
          /\ net_pc' = "loop"
          /\ UNCHANGED << cmd_pc, pt_pc >>
       \/ /\ main_pc = "start_cmd"
          /\ main_pc' = "start_play"
          /\ cmd_pc' = "reading"
          /\ UNCHANGED << net_pc, pt_pc >>
       \/ /\ main_pc = "start_play"
          /\ main_pc' = "open_input"
          /\ pt_pc' = "opening"
          /\ UNCHANGED << net_pc, cmd_pc >>
    /\ UNCHANGED << CHANNELS, is_muted, running, stop_emit, send_q, play_q, in_open, disc,
                    net_b64, h_deq, h_emit, out_open, capVars, recvVars, pbVars, nev, n_cap,
                    muted_puts, mute_enq, pb_raced, pb_win >>

\* with sd.InputStream(...): opening succeeds or raises (lines 203, 209-210)
MainOpenInput ==
    /\ main_pc = "open_input"
    /\ \E ok \in BOOLEAN :
        /\ in_open' = ok
        /\ main_pc' = IF ok THEN "wait" ELSE "finally"
    /\ UNCHANGED << disc, CHANNELS, is_muted, running, stop_emit, send_q, play_q, cmd_pc, netVars,
                    ptVars, capVars, recvVars, pbVars, nev, n_cap, muted_puts, mute_enq, pb_raced, pb_win >>

\* the ways out of the with block: the loop condition reads running as
\* false (line 205), a KeyboardInterrupt (line 207), an exception of the
\* stream (line 209)
ExitPaths == {"running_false", "interrupt", "stream_error"}

\* while running: sleep; the loop ends when running is false, or with a
\* KeyboardInterrupt or an exception; leaving the with block closes the
\* stream, which waits for a capture callback in progress (lines 203-210)
MainLeaveStream(how) ==
    /\ main_pc = "wait"
    /\ how = "running_false" => ~running
    /\ cap_pc = "idle"
    /\ in_open' = FALSE
    /\ main_pc' = "finally"
    /\ UNCHANGED << disc, CHANNELS, is_muted, running, stop_emit, send_q, play_q, cmd_pc, netVars,
                    ptVars, capVars, recvVars, pbVars, nev, n_cap, muted_puts, mute_enq, pb_raced, pb_win >>

\* mutant of MainFinally: a finally clause that leaves running as it is
MainFinallyKeepsRunning ==
    /\ main_pc = "finally"
    /\ main_pc' = "disconnect"
    /\ UNCHANGED << CHANNELS, is_muted, running, stop_emit, send_q, play_q, in_open, disc,
                    cmd_pc, netVars, ptVars, capVars, recvVars, pbVars, nev, n_cap,
                    muted_puts, mute_enq, pb_raced, pb_win >>

\* finally: running = False (lines 211-212)
MainFinally ==
    /\ main_pc = "finally"
    /\ running' = FALSE
    /\ stop_emit' = IF running THEN Len(h_emit) ELSE stop_emit
    /\ main_pc' = "disconnect"
    /\ UNCHANGED << CHANNELS, is_muted, send_q, play_q, in_open, disc, cmd_pc, netVars,
                    ptVars, capVars, recvVars, pbVars, nev, n_cap, muted_puts, mute_enq, pb_raced, pb_win >>

\* sio.disconnect() returns, or raises and the exception is swallowed; main
\* returns either way (lines 213-217)
MainDisconnect ==
    /\ main_pc = "disconnect"
    /\ \E ok \in BOOLEAN : disc' = IF ok THEN "ok" ELSE "failed"
    /\ main_pc' = "done"
    /\ UNCHANGED << CHANNELS, is_muted, running, stop_emit, send_q, play_q, in_open, cmd_pc,
                    netVars, ptVars, capVars, recvVars, pbVars, nev, n_cap, muted_puts, mute_enq,
                    pb_raced, pb_win >>

(***************************************************************************)
(* command_listener (lines 170-184): one line of stdin per step.           *)
(***************************************************************************)
CommandLines == {"mute", "unmute", "exit", "eof"}

command_listener(cmd) ==
    /\ Alive
    /\ cmd_pc = "reading"
    /\ is_muted' = IF cmd = "mute" THEN TRUE
                   ELSE IF cmd = "unmute" THEN FALSE ELSE is_muted
    /\ running' = IF cmd = "exit" THEN FALSE ELSE running
    /\ stop_emit' = IF running /\ ~running' THEN Len(h_emit) ELSE stop_emit
    /\ cmd_pc' = IF cmd \in {"exit", "eof"} THEN "done" ELSE "reading"
    /\ muted_puts' = IF is_muted' /\ is_muted THEN muted_puts ELSE 0
    /\ mute_enq' = IF is_muted' /\ is_muted THEN mute_enq
                   ELSE IF is_muted' THEN Len(h_enq) ELSE 0
    /\ UNCHANGED << CHANNELS, send_q, play_q, mainVars, netVars, ptVars, capVars,
                    recvVars, pbVars, nev, n_cap, pb_raced, pb_win >>

(***************************************************************************)
(* on_audio_chunk (lines 73-89).                                           *)
(***************************************************************************)
Truthy(v) == (v.t = "str" /\ Len(v.s) > 0) \/ v.t = "int"

\* mutant of DecodePayload: the handler without the return of lines 80-81
DecodePayloadNoEmptyCheck(payload) ==
    IF payload.data.t # "str"
    THEN [res |-> "error", arr |-> <<>>]
    ELSE LET raw == B64Decode(payload.data.s) IN
         IF ~raw.ok
         THEN [res |-> "error", arr |-> <<>>]
         ELSE LET a == FromBuffer(raw.bytes) IN
              IF ~a.ok
              THEN [res |-> "error", arr |-> <<>>]
              ELSE [res |-> "chunk", arr |-> a.arr]

\* the outcome of the handler up to the insert: "empty" is the return of line
\* 81, "error" an exception caught at line 88, "chunk" an array to insert
DecodePayload(payload) ==
    IF payload.dict /\ Truthy(payload.data) /\ payload.data.t # "str"
    THEN [res |-> "error", arr |-> <<>>]              \* len() of a number, line 77
    ELSE IF ~Truthy(payload.data)
    THEN [res |-> "empty", arr |-> <<>>]              \* lines 80-81
    ELSE IF payload.data.t # "str"
    THEN [res |-> "error", arr |-> <<>>]              \* b64decode of a number
    ELSE LET raw == B64Decode(payload.data.s) IN
         IF ~raw.ok
         THEN [res |-> "error", arr |-> <<>>]         \* binascii.Error, line 82
         ELSE LET a == FromBuffer(raw.bytes) IN
              IF ~a.ok
              THEN [res |-> "error", arr |-> <<>>]    \* ValueError, line 83
              ELSE [res |-> "chunk", arr |-> a.arr]

\* mutant of PutNowait: a queue without maxsize
PutNowaitUnbounded(q, maxsize, item) == [full |-> FALSE, q |-> Append(q, item)]

\* mutant of PutNowait: a full queue evicts its oldest item for the new one
PutNowaitEvict(q, maxsize, item) ==
    IF Len(q) < maxsize
    THEN [full |-> FALSE, q |-> Append(q, item)]
    ELSE [full |-> TRUE, q |-> Append(Tail(q), item)]

\* queue.Queue.put_nowait: appends, or raises queue.Full at capacity
PutNowait(q, maxsize, item) ==
    IF Len(q) < maxsize
    THEN [full |-> FALSE, q |-> Append(q, item)]
    ELSE [full |-> TRUE, q |-> q]

\* the relay's {sender, data} message for the i-th chunk this program emitted
RelayPayload(i) == [dict |-> TRUE, data |-> Str(h_emit[i].b64)]

EmittedPayloads == { RelayPayload(i) : i \in 1..Len(h_emit) }

on_audio_chunk(payload) ==
    /\ Alive
    /\ main_pc # "connect"
    /\ nev < MaxEvents
    /\ nev' = nev + 1
    /\ UNCHANGED n_cap
    /\ LET d == DecodePayload(payload)
           p == PutNowait(play_q, PLAY_Q_MAXSIZE, d.arr)
       IN  /\ IF d.res = "chunk"
              THEN /\ play_q' = p.q
                   /\ recv_res' = IF p.full THEN "full" ELSE "put"
                   /\ pb_raced' = (pb_raced \/ (pb_pc # "idle" /\ ~p.full))
                   /\ pb_win' = (pb_win \/ (pb_pc = "reinsert" /\ ~p.full))
              ELSE /\ play_q' = play_q
                   /\ recv_res' = d.res
                   /\ pb_raced' = pb_raced
                   /\ pb_win' = pb_win
           /\ recv_failed' = (recv_failed \/ d.res = "error")
    /\ UNCHANGED << CHANNELS, is_muted, running, stop_emit, send_q, mainVars, cmd_pc, netVars,
                    ptVars, capVars, pbVars, muted_puts, mute_enq >>

(***************************************************************************)
(* audio_capture_callback (lines 93-115).  The read of is_muted (line 96)  *)
(* and send_q.put_nowait (line 110) are separate steps of the audio        *)
(* thread; the conversion and encoding between them touch only locals.     *)
(***************************************************************************)
\* mutant of CaptureBegin: the callback without its mute check
CaptureBeginNoMute(indata, status) ==
    /\ Alive
    /\ in_open
    /\ cap_pc = "idle"
    /\ nev < MaxEvents
    /\ nev' = nev + 1
    /\ n_cap' = n_cap + 1
    /\ cap_in' = indata
    /\ cap_b64' = B64Encode(ToBytes(ToInt16(indata)))
    /\ cap_pc' = "put"
    /\ cap_res' = "none"
    /\ UNCHANGED << CHANNELS, is_muted, running, stop_emit, send_q, play_q, mainVars, cmd_pc,
                    netVars, ptVars, recvVars, pbVars, h_enq, muted_puts, mute_enq, pb_raced, pb_win >>

\* mutant of CaptureBegin: a reported device status stops the program
CaptureBeginStatusStops(indata, status) ==
    /\ Alive
    /\ in_open
    /\ cap_pc = "idle"
    /\ IF is_muted
       THEN /\ cap_res' = "muted"
            /\ UNCHANGED << cap_pc, cap_in, cap_b64, nev, n_cap >>
       ELSE /\ nev < MaxEvents
            /\ nev' = nev + 1
            /\ n_cap' = n_cap + 1
            /\ cap_in' = indata
            /\ cap_b64' = B64Encode(ToBytes(ToInt16(indata)))
            /\ cap_pc' = "put"
            /\ cap_res' = "none"
    /\ running' = (running /\ ~status)
    /\ UNCHANGED stop_emit
    /\ UNCHANGED << CHANNELS, is_muted, send_q, play_q, mainVars, cmd_pc,
                    netVars, ptVars, recvVars, pbVars, h_enq, muted_puts, mute_enq, pb_raced, pb_win >>

CaptureBegin(indata, status) ==
    /\ Alive
    /\ in_open
    /\ cap_pc = "idle"
    /\ IF is_muted
       THEN /\ cap_res' = "muted"
            /\ UNCHANGED << cap_pc, cap_in, cap_b64, nev, n_cap >>
       ELSE /\ nev < MaxEvents
            /\ nev' = nev + 1
            /\ n_cap' = n_cap + 1
            /\ cap_in' = indata
            /\ cap_b64' = B64Encode(ToBytes(ToInt16(indata)))
            /\ cap_pc' = "put"
            /\ cap_res' = "none"
    /\ UNCHANGED << CHANNELS, is_muted, running, stop_emit, send_q, play_q, mainVars, cmd_pc,
                    netVars, ptVars, recvVars, pbVars, h_enq, muted_puts, mute_enq, pb_raced, pb_win >>

\* send_q.put_nowait(b64), dropped on queue.Full; the callback returns and
\* its locals are gone (lines 109-113)
CapturePut ==
    /\ Alive
    /\ cap_pc = "put"
    /\ LET p == PutNowait(send_q, SEND_Q_MAXSIZE, cap_b64)
       IN  /\ send_q' = p.q
           /\ h_enq' = IF p.full THEN h_enq
                       ELSE Append(h_enq, [indata |-> cap_in, b64 |-> cap_b64,
                                           seq |-> n_cap])
           /\ cap_res' = IF p.full THEN "full" ELSE "put"
           /\ muted_puts' = IF is_muted /\ ~p.full THEN muted_puts + 1 ELSE muted_puts
           /\ UNCHANGED mute_enq
    /\ cap_pc' = "idle"
    /\ cap_in' = NoInput
    /\ cap_b64' = <<>>
    /\ UNCHANGED << CHANNELS, is_muted, running, stop_emit, play_q, mainVars, cmd_pc, netVars,
                    ptVars, recvVars, pbVars, nev, n_cap, pb_raced, pb_win >>

(***************************************************************************)
(* network_sender_loop (lines 118-129).                                    *)
(***************************************************************************)
\* mutant of NetLoop: a loop that goes on until send_q is drained
NetLoopDrains ==
    /\ Alive
    /\ net_pc = "loop"
    /\ net_pc' = IF running \/ send_q # <<>> THEN "get" ELSE "done"
    /\ UNCHANGED << CHANNELS, is_muted, running, stop_emit, send_q, play_q, mainVars,
                    cmd_pc, net_b64, h_deq, h_emit, ptVars, capVars, recvVars, pbVars,
                    nev, n_cap, muted_puts, mute_enq, pb_raced, pb_win >>

\* while running (line 120)
NetLoop ==
    /\ Alive
    /\ net_pc = "loop"
    /\ net_pc' = IF running THEN "get" ELSE "done"
    /\ UNCHANGED << CHANNELS, is_muted, running, stop_emit, send_q, play_q, mainVars, cmd_pc,
                    net_b64, h_deq, h_emit, ptVars, capVars, recvVars, pbVars, nev, n_cap,
                    muted_puts, mute_enq, pb_raced, pb_win >>

\* mutant of NetGet: a get that takes the newest item of send_q
NetGetNewest ==
    /\ Alive
    /\ net_pc = "get"
    /\ IF send_q = <<>>
       THEN /\ net_pc' = "loop"
            /\ UNCHANGED << send_q, net_b64, h_deq >>
       ELSE /\ net_b64' = send_q[Len(send_q)]
            /\ send_q' = SubSeq(send_q, 1, Len(send_q) - 1)
            /\ h_deq' = Append(h_deq, send_q[Len(send_q)])
            /\ net_pc' = "emit"
    /\ UNCHANGED << CHANNELS, is_muted, running, stop_emit, play_q, mainVars, cmd_pc, h_emit,
                    ptVars, capVars, recvVars, pbVars, nev, n_cap, muted_puts,
                    mute_enq, pb_raced, pb_win >>

\* mutant of NetGet: send_q.get() without a timeout, which waits for an item
NetGetBlocking ==
    /\ Alive
    /\ net_pc = "get"
    /\ send_q # <<>>
    /\ net_b64' = Head(send_q)
    /\ send_q' = Tail(send_q)
    /\ h_deq' = Append(h_deq, Head(send_q))
    /\ net_pc' = "emit"
    /\ UNCHANGED << CHANNELS, is_muted, running, stop_emit, play_q, mainVars, cmd_pc, h_emit,
                    ptVars, capVars, recvVars, pbVars, nev, n_cap, muted_puts, mute_enq,
                    pb_raced, pb_win >>

\* send_q.get(timeout=0.5): an item as soon as there is one, queue.Empty when
\* the timeout ends on an empty queue (lines 121-124)
NetGet ==
    /\ Alive
    /\ net_pc = "get"
    /\ IF send_q = <<>>
       THEN /\ net_pc' = "loop"
            /\ UNCHANGED << send_q, net_b64, h_deq >>
       ELSE /\ net_b64' = Head(send_q)
            /\ send_q' = Tail(send_q)
            /\ h_deq' = Append(h_deq, Head(send_q))
            /\ net_pc' = "emit"
    /\ UNCHANGED << CHANNELS, is_muted, running, stop_emit, play_q, mainVars, cmd_pc, h_emit,
                    ptVars, capVars, recvVars, pbVars, nev, n_cap, muted_puts, mute_enq, pb_raced, pb_win >>

\* mutant of NetEmit: a chunk whose emission failed is put back into send_q
NetEmitRequeue ==
    /\ Alive
    /\ net_pc = "emit"
    /\ \E ok \in BOOLEAN :
        /\ h_emit' = Append(h_emit, [b64 |-> net_b64, ok |-> ok])
        /\ send_q' = IF ok THEN send_q
                     ELSE PutNowait(send_q, SEND_Q_MAXSIZE, net_b64).q
    /\ net_pc' = "loop"
    /\ net_b64' = <<>>
    /\ UNCHANGED << CHANNELS, is_muted, running, stop_emit, play_q, mainVars, cmd_pc,
                    h_deq, ptVars, capVars, recvVars, pbVars, nev, n_cap,
                    muted_puts, mute_enq, pb_raced, pb_win >>

\* sio.emit("audio-chunk", ...): returns, or raises and the loop logs, sleeps
\* 0.1 s and goes on; b64 is not read again before the next get assigns it
\* (lines 125-129)
NetEmit ==
    /\ Alive
    /\ net_pc = "emit"
    /\ \E ok \in BOOLEAN :
        h_emit' = Append(h_emit, [b64 |-> net_b64, ok |-> ok])
    /\ net_pc' = "loop"
    /\ net_b64' = <<>>
    /\ UNCHANGED << CHANNELS, is_muted, running, stop_emit, send_q, play_q, mainVars, cmd_pc,
                    h_deq, ptVars, capVars, recvVars, pbVars, nev, n_cap,
                    muted_puts, mute_enq, pb_raced, pb_win >>

(***************************************************************************)
(* audio_playback_loop (lines 132-167).                                    *)
(***************************************************************************)
\* with sd.OutputStream(...): opening succeeds or raises (lines 162-167)
PlayOpen ==
    /\ Alive
    /\ pt_pc = "opening"
    /\ \E ok \in BOOLEAN :
        /\ out_open' = ok
        /\ pt_pc' = IF ok THEN "wait" ELSE "done"
    /\ UNCHANGED << CHANNELS, is_muted, running, stop_emit, send_q, play_q, mainVars, cmd_pc,
                    netVars, capVars, recvVars, pbVars, nev, n_cap, muted_puts, mute_enq, pb_raced, pb_win >>

\* while running: sleep; leaving the with block closes the stream, which
\* waits for a playback callback in progress (lines 164-165)
PlayLeaveStream ==
    /\ Alive
    /\ pt_pc = "wait"
    /\ ~running
    /\ pb_pc = "idle"
    /\ out_open' = FALSE
    /\ pt_pc' = "done"
    /\ UNCHANGED << CHANNELS, is_muted, running, stop_emit, send_q, play_q, mainVars, cmd_pc,
                    netVars, capVars, recvVars, pbVars, nev, n_cap, muted_puts, mute_enq, pb_raced, pb_win >>

Zeros(n) == [i \in 1..n |-> 0]

\* mutant of Reshape: one sample per frame, whatever the channel count
ReshapeMono(buf, frames, channels) == [f \in 1..frames |-> << buf[f] >>]

\* out_buf.reshape((frames, CHANNELS)): frames rows of CHANNELS samples
Reshape(buf, frames, channels) ==
    [f \in 1..frames |-> [c \in 1..channels |-> buf[(f - 1) * channels + c]]]

\* mutant of CopyInto: every chunk is copied to the start of the buffer
CopyIntoStart(buf, at, chunk, to_copy) ==
    [i \in 1..Len(buf) |-> IF i <= to_copy THEN chunk[i] ELSE buf[i]]

\* out_buf[got:got+to_copy] = chunk[:to_copy]
CopyInto(buf, at, chunk, to_copy) ==
    [i \in 1..Len(buf) |->
        IF i > at /\ i <= at + to_copy THEN chunk[i - at] ELSE buf[i]]

\* mutant of Remainder: the slice starts one sample late
RemainderLate(chunk, to_copy) == SubSeq(chunk, to_copy + 2, Len(chunk))

\* rem = chunk[to_copy:]
Remainder(chunk, to_copy) == SubSeq(chunk, to_copy + 1, Len(chunk))

Min(a, b) == IF a < b THEN a ELSE b

\* callback entry: required, out_buf, got (lines 139-141); a request for no
\* samples skips the loop and writes the empty buffer (line 157)
PbBegin(frames) ==
    /\ Alive
    /\ out_open
    /\ pb_pc = "idle"
    /\ nev < MaxEvents
    /\ nev' = nev + 1
    /\ UNCHANGED n_cap
    /\ pb_frames' = frames
    /\ got' = 0
    /\ rem' = <<>>
    /\ pb_q0' = play_q
    /\ pb_popped' = <<>>
    /\ pb_re' = "none"
    /\ pb_raced' = FALSE
    /\ pb_win' = FALSE
    /\ LET required == frames * CHANNELS
       IN  IF required = 0
           THEN /\ out_buf' = <<>>
                /\ outdata' = Reshape(<<>>, frames, CHANNELS)
                /\ pb_pc' = "idle"
           ELSE /\ out_buf' = Zeros(required)
                /\ outdata' = outdata
                /\ pb_pc' = "loop"
    /\ UNCHANGED << CHANNELS, is_muted, running, stop_emit, send_q, play_q, mainVars, cmd_pc,
                    netVars, ptVars, capVars, recvVars, muted_puts, mute_enq >>

\* mutant of PbGet: the chunk is read and left in play_q
PbGetKeeps ==
    /\ Alive
    /\ pb_pc = "loop"
    /\ LET required == pb_frames * CHANNELS IN
       IF play_q = <<>>
       THEN /\ outdata' = Reshape(out_buf, pb_frames, CHANNELS)
            /\ pb_pc' = "idle"
            /\ UNCHANGED << play_q, out_buf, got, rem, pb_popped >>
       ELSE LET chunk == Head(play_q)
                to_copy == Min(Len(chunk), required - got)
                buf == CopyInto(out_buf, got, chunk, to_copy)
            IN  /\ play_q' = play_q
                /\ pb_popped' = Append(pb_popped, chunk)
                /\ out_buf' = buf
                /\ got' = got + to_copy
                /\ IF to_copy < Len(chunk)
                   THEN /\ rem' = Remainder(chunk, to_copy)
                        /\ pb_pc' = "reinsert"
                        /\ outdata' = outdata
                   ELSE IF got + to_copy < required
                   THEN /\ pb_pc' = "loop"
                        /\ UNCHANGED << rem, outdata >>
                   ELSE /\ pb_pc' = "idle"
                        /\ outdata' = Reshape(buf, pb_frames, CHANNELS)
                        /\ rem' = rem
    /\ UNCHANGED << CHANNELS, is_muted, running, stop_emit, send_q, mainVars, cmd_pc, netVars,
                    ptVars, capVars, recvVars, pb_frames, nev, n_cap, muted_puts, mute_enq, pb_q0,
                    pb_re, pb_raced, pb_win >>

\* one pass of the while loop up to its next queue operation: get_nowait,
\* the copy, and either the break on queue.Empty, the remainder to re-insert,
\* the next pass, or the end of the loop and the write of outdata
\* (lines 142-151, 157)
PbGet ==
    /\ Alive
    /\ pb_pc = "loop"
    /\ LET required == pb_frames * CHANNELS IN
       IF play_q = <<>>
       THEN /\ outdata' = Reshape(out_buf, pb_frames, CHANNELS)
            /\ pb_pc' = "idle"
            /\ UNCHANGED << play_q, out_buf, got, rem, pb_popped >>
       ELSE LET chunk == Head(play_q)
                to_copy == Min(Len(chunk), required - got)
                buf == CopyInto(out_buf, got, chunk, to_copy)
            IN  /\ play_q' = Tail(play_q)
                /\ pb_popped' = Append(pb_popped, chunk)
                /\ out_buf' = buf
                /\ got' = got + to_copy
                /\ IF to_copy < Len(chunk)
                   THEN /\ rem' = Remainder(chunk, to_copy)
                        /\ pb_pc' = "reinsert"
                        /\ outdata' = outdata
                   ELSE IF got + to_copy < required
                   THEN /\ pb_pc' = "loop"
                        /\ UNCHANGED << rem, outdata >>
                   ELSE /\ pb_pc' = "idle"
                        /\ outdata' = Reshape(buf, pb_frames, CHANNELS)
                        /\ rem' = rem
    /\ UNCHANGED << CHANNELS, is_muted, running, stop_emit, send_q, mainVars, cmd_pc, netVars,
                    ptVars, capVars, recvVars, pb_frames, nev, n_cap, muted_puts, mute_enq, pb_q0,
                    pb_re, pb_raced, pb_win >>

\* mutant of PbReinsert: the loop goes on after the re-insert
PbReinsertGoesOn ==
    /\ Alive
    /\ pb_pc = "reinsert"
    /\ LET p == PutNowait(play_q, PLAY_Q_MAXSIZE, rem)
       IN  /\ play_q' = p.q
           /\ pb_re' = IF p.full THEN "full" ELSE "put"
    /\ outdata' = Reshape(out_buf, pb_frames, CHANNELS)
    /\ pb_pc' = "loop"
    /\ UNCHANGED << CHANNELS, is_muted, running, stop_emit, send_q, mainVars, cmd_pc, netVars,
                    ptVars, capVars, recvVars, pb_frames, out_buf, got, rem, nev, n_cap,
                    muted_puts, mute_enq, pb_q0, pb_popped, pb_raced, pb_win >>

\* play_q.put_nowait(rem), dropped on queue.Full; got = required ends the
\* loop and outdata is written (lines 152-157)
PbReinsert ==
    /\ Alive
    /\ pb_pc = "reinsert"
    /\ LET p == PutNowait(play_q, PLAY_Q_MAXSIZE, rem)
       IN  /\ play_q' = p.q
           /\ pb_re' = IF p.full THEN "full" ELSE "put"
    /\ outdata' = Reshape(out_buf, pb_frames, CHANNELS)
    /\ pb_pc' = "idle"
    /\ UNCHANGED << CHANNELS, is_muted, running, stop_emit, send_q, mainVars, cmd_pc, netVars,
                    ptVars, capVars, recvVars, pb_frames, out_buf, got, rem, nev, n_cap,
                    muted_puts, mute_enq, pb_q0, pb_popped, pb_raced, pb_win >>

(***************************************************************************)
(* The program.                                                            *)
(***************************************************************************)
Lifecycle ==
    \/ MainConnect
    \/ MainStartThreads
    \/ MainOpenInput
    \/ \E how \in ExitPaths : MainLeaveStream(how)
    \/ MainFinally
    \/ MainDisconnect
    \/ \E cmd \in CommandLines : command_listener(cmd)

SendSide ==
    \/ CapturePut
    \/ NetLoop
    \/ NetGet
    \/ NetEmit

PlaySide ==
    \/ PlayOpen
    \/ PlayLeaveStream
    \/ PbGet
    \/ PbReinsert

\* every thread and callback of the program, with one input of each kind
Next ==
    \/ Lifecycle
    \/ SendSide
    \/ PlaySide
    \/ \E indata \in CoreCaptureInputs, status \in BOOLEAN : CaptureBegin(indata, status)
    \/ \E payload \in CorePayloads \cup EmittedPayloads : on_audio_chunk(payload)
    \/ \E frames \in CoreFrameChoices : PbBegin(frames)

Spec == Init /\ [][Next]_vars

\* the send path with every capture input; the receiver handler and the
\* playback thread are not scheduled
NextSend ==
    \/ Lifecycle
    \/ SendSide
    \/ \E indata \in CaptureInputs, status \in BOOLEAN : CaptureBegin(indata, status)

SpecSend == Init /\ [][NextSend]_vars

\* the playback path with every payload and frame count; the capture
\* callback and the sender loop are not scheduled
NextPlay ==
    \/ Lifecycle
    \/ PlaySide
    \/ \E payload \in FixedPayloads : on_audio_chunk(payload)
    \/ \E frames \in FrameChoices : PbBegin(frames)

SpecPlay == Init /\ [][NextPlay]_vars

\* the threads and their loops, with the capture callback feeding send_q and
\* the playback callback served from an empty play_q; the receiver handler
\* is not scheduled
NextLive ==
    \/ Lifecycle
    \/ SendSide
    \/ PlayOpen
    \/ PlayLeaveStream
    \/ PbGet
    \/ \E indata \in CoreCaptureInputs, status \in BOOLEAN : CaptureBegin(indata, status)
    \/ \E frames \in CoreFrameChoices : PbBegin(frames)

\* what the scheduling of the code gives: a started thread gets to run, the
\* timed get (line 122), sio.emit and the sleeps of lines 129, 165 and 206
\* return, a device callback that was entered runs to its end, and main gets
\* to start its threads and open its stream.  Nothing is assumed of the
\* operator, of the devices' callbacks being invoked, or of main getting
\* through its finally clause.
Fairness ==
    /\ WF_vars(NetLoop)
    /\ WF_vars(NetGet)
    /\ WF_vars(NetEmit)
    /\ WF_vars(PlayOpen)
    /\ WF_vars(PlayLeaveStream)
    /\ WF_vars(PbGet)
    /\ WF_vars(CapturePut)
    /\ WF_vars(MainStartThreads)
    /\ WF_vars(MainOpenInput)
    /\ WF_vars(MainLeaveStream("running_false"))

SpecLive == Init /\ [][NextLive]_vars /\ Fairness

(***************************************************************************)
(* Properties.                                                             *)
(***************************************************************************)
\* the payloads of the input sets that decode to a chunk
ChunkPayloads ==
    { p \in FixedPayloads \cup CorePayloads : DecodePayload(p).res = "chunk" }

\* C1: in every reachable state, under any interleaving of the capture
\* callback, the sender loop, the receiver handler and the playback callback
\* with its remainder re-insert, send_q holds at most its capacity and play_q
\* holds at most its capacity.
C1_QueuesBounded ==
    /\ Len(send_q) <= SEND_Q_MAXSIZE
    /\ Len(play_q) <= PLAY_Q_MAXSIZE

\* an insert into the full play_q was refused while send_q holds chunks too
C1_Witness ==
    /\ recv_res = "full"
    /\ Len(play_q) = PLAY_Q_MAXSIZE
    /\ send_q # <<>>

\* C2 as stated: while is_muted is set no item is inserted into send_q,
\* however the command listener's writes interleave with a capture callback
\* in progress.
C2_NoInsertWhileMuted == is_muted => muted_puts = 0

\* C2 as amended: while is_muted stays set, at most one item is inserted
\* into send_q, by the capture callback that had read the flag as clear
\* before it was set; a callback that reads the flag as set inserts nothing.
C2_AtMostOneInsertWhileMuted ==
    /\ [](is_muted => muted_puts <= 1)
    /\ [][\A indata \in CaptureInputs \cup CoreCaptureInputs, status \in BOOLEAN :
            (CaptureBegin(indata, status) /\ is_muted)
                => (cap_pc' = "idle" /\ cap_res' = "muted" /\ UNCHANGED send_q)]_vars

\* a callback returned at the mute check after the one late insert
C2_Witness ==
    /\ is_muted
    /\ muted_puts = 1
    /\ cap_res = "muted"

\* C3: when the capture callback inserts into a full send_q, or the receiver
\* handler into a full play_q, the new chunk is the one discarded: the
\* callback returns normally and the queue's size and contents are unchanged.
C3_FullInsertDropsNew ==
    [][ /\ (CapturePut /\ Len(send_q) = SEND_Q_MAXSIZE)
            => (send_q' = send_q /\ cap_pc' = "idle" /\ cap_res' = "full")
        /\ \A payload \in ChunkPayloads \cup EmittedPayloads :
            (Len(play_q) = PLAY_Q_MAXSIZE /\ on_audio_chunk(payload))
                => (play_q' = play_q /\ recv_res' = "full") ]_vars

\* the capture callback dropped a chunk at a full send_q
C3_Witness ==
    /\ cap_res = "full"
    /\ cap_pc = "idle"
    /\ Len(send_q) = SEND_Q_MAXSIZE

RECURSIVE Concat(_)
\* the samples of a sequence of chunks (or of the rows of outdata), in order
Concat(chunks) ==
    IF chunks = <<>> THEN <<>> ELSE Head(chunks) \o Concat(Tail(chunks))

\* a step in which the playback callback returns, outdata written
PbReturns ==
    /\ pb_pc' = "idle"
    /\ \/ PbGet
       \/ PbReinsert
       \/ \E frames \in FrameChoices \cup CoreFrameChoices : PbBegin(frames)

\* C4: for every playback callback invocation the output written has exactly
\* frames * channels samples (frames rows of CHANNELS samples); and when
\* play_q is empty for the whole invocation every output sample is zero and
\* play_q is still empty afterwards.
C4_OutputSizeAndSilence ==
    [][PbReturns =>
        LET out == Concat(outdata') IN
        /\ Len(outdata') = pb_frames'
        /\ \A f \in 1..Len(outdata') : Len(outdata'[f]) = CHANNELS
        /\ Len(out) = pb_frames' * CHANNELS
        /\ (pb_q0' = <<>> /\ ~pb_raced')
              => /\ \A i \in 1..Len(out) : out[i] = 0
                 /\ play_q' = <<>>]_vars

\* a two-frame stereo request was served from an empty queue
C4_Witness ==
    /\ pb_pc = "idle"
    /\ pb_frames = 2
    /\ CHANNELS = 2
    /\ pb_q0 = <<>>
    /\ ~pb_raced
    /\ outdata = << <<0, 0>>, <<0, 0>> >>

\* C5: underrun.  When play_q holds chunks with T samples in total,
\* T < required = frames * channels, and no chunk arrives during the callback,
\* the output is the concatenation of those chunks in FIFO order in its first
\* T positions, zero in the remaining required - T, and play_q is empty
\* afterwards.
C5_UnderrunPadsWithZeros ==
    [][(PbReturns /\ ~pb_raced'
            /\ Len(Concat(pb_q0')) < pb_frames' * CHANNELS) =>
        LET T == Len(Concat(pb_q0')) IN
        /\ Concat(outdata') = Concat(pb_q0') \o Zeros(pb_frames' * CHANNELS - T)
        /\ play_q' = <<>>]_vars

\* two queued chunks were played into a request larger than both together
C5_Witness ==
    /\ pb_pc = "idle"
    /\ Len(pb_q0) = 2
    /\ pb_popped = pb_q0
    /\ ~pb_raced
    /\ Len(Concat(pb_q0)) < pb_frames * CHANNELS
    /\ play_q = <<>>

\* what C6 says of the step that re-inserts the remainder, but for the
\* re-insert itself: the output is completely filled from the popped chunks,
\* the first `space` samples of the last chunk fill the space that was left,
\* and rem holds the other Len(chunk) - space samples in order
RemainderFacts ==
    LET n == Len(pb_popped)
        chunk == pb_popped[n]
        required == pb_frames * CHANNELS
        space == required - Len(Concat(SubSeq(pb_popped, 1, n - 1)))
        out == Concat(outdata')
    IN  /\ Len(chunk) > space
        /\ space > 0
        /\ out = SubSeq(Concat(pb_popped), 1, required)
        /\ SubSeq(out, required - space + 1, required) = SubSeq(chunk, 1, space)
        /\ rem = SubSeq(chunk, space + 1, Len(chunk))
        /\ Len(rem) = Len(chunk) - space

\* C6 as stated: when the callback pops a chunk with more samples than the
\* space left, the output is completely filled, the first `space` samples of
\* the chunk are the ones copied, and one remainder chunk with the remaining
\* samples in order is put back into play_q.
C6_RemainderAlwaysRequeued ==
    [][PbReinsert => (RemainderFacts /\ play_q' = Append(play_q, rem))]_vars

\* C6 as amended: the same, the remainder being put back when play_q has
\* room at the re-insert and discarded, play_q unchanged, when it is full.
C6_RemainderRequeuedIfRoom ==
    [][PbReinsert =>
        /\ RemainderFacts
        /\ pb_pc' = "idle"
        /\ IF Len(play_q) < PLAY_Q_MAXSIZE
           THEN play_q' = Append(play_q, rem) /\ pb_re' = "put"
           ELSE play_q' = play_q /\ pb_re' = "full"]_vars

\* a three-sample chunk served a two-sample request and its last sample is
\* back in play_q
C6_Witness ==
    /\ pb_pc = "idle"
    /\ pb_re = "put"
    /\ pb_popped = << <<1, 2, 3>> >>
    /\ pb_frames * CHANNELS = 2
    /\ play_q # <<>>
    /\ play_q[Len(play_q)] = <<3>>

\* the payload's data is an empty string or is missing
EmptyData(payload) == payload.data = Str(<<>>) \/ payload.data = NoneVal

EmptyPayloads == { p \in FixedPayloads : EmptyData(p) }

\* C7: the receiver handler called with a payload whose data is empty or
\* missing (an object with an empty data string or none, an empty bare
\* string) returns without modifying play_q.
C7_EmptyPayloadIgnored ==
    [][\A payload \in EmptyPayloads :
        on_audio_chunk(payload)
            => (play_q' = play_q /\ recv_res' = "empty"
                /\ recv_failed' = recv_failed)]_vars

\* an empty payload arrived while a chunk was queued
C7_Witness ==
    /\ recv_res = "empty"
    /\ play_q # <<>>

\* the payload's data is a non-empty string that is not valid base64 or
\* does not decode to a whole number of 16-bit samples
Malformed(payload) ==
    /\ payload.data.t = "str"
    /\ payload.data.s # <<>>
    /\ LET raw == B64Decode(payload.data.s)
       IN  ~raw.ok \/ Len(raw.bytes) % 2 # 0

MalformedPayloads == { p \in FixedPayloads : Malformed(p) }

\* well-formed payloads, as an object and as a bare string, with the sample
\* block x each of them encodes
KnownPayloads ==
    { [p |-> [dict |-> d, data |-> Str(B64Encode(ToBytes(x)))], x |-> x] :
        d \in BOOLEAN, x \in { <<5>>, <<1, 2, 3>>, <<7, 8>>, <<258, -2>> } }

\* C8: a malformed payload whose decoding fails is a no-op: the handler
\* returns normally and play_q is unchanged; valid messages that come after a
\* failure are still decoded and enqueued.
C8_MalformedPayloadIsNoOp ==
    [][ /\ \A payload \in MalformedPayloads :
            on_audio_chunk(payload)
                => (play_q' = play_q /\ recv_res' = "error" /\ recv_failed')
        /\ \A k \in KnownPayloads :
            (recv_failed /\ Len(play_q) < PLAY_Q_MAXSIZE /\ on_audio_chunk(k.p))
                => (play_q' = Append(play_q, k.x) /\ recv_res' = "put") ]_vars

\* a chunk was enqueued after an earlier message had failed to decode
C8_Witness ==
    /\ recv_failed
    /\ recv_res = "put"
    /\ play_q # <<>>

\* 16-bit sample blocks, the extreme values included
SampleBlocks ==
    { <<>>, <<0>>, <<-1>>, <<0, 0, 0, 0>>, <<-32768, 32767>>, <<258, -2, 1>> }

\* C9: round trip.  base64 encoding followed by decoding gives back the
\* bytes and the samples of any 16-bit block, and a 16-bit block accepted by
\* the capture callback, emitted by the sender loop and delivered unchanged
\* to the receiver handler is inserted into play_q as the same samples.
C9_RoundTrip ==
    /\ \A x \in SampleBlocks :
        LET raw == B64Decode(B64Encode(ToBytes(x)))
        IN  /\ raw.ok
            /\ raw.bytes = ToBytes(x)
            /\ Len(raw.bytes) = 2 * Len(x)
            /\ FromBuffer(raw.bytes) = [ok |-> TRUE, arr |-> x]
    /\ [][\A i \in 1..Len(h_emit) :
            (on_audio_chunk(RelayPayload(i)) /\ h_enq[i].indata.dtype = "int16")
                => IF Len(play_q) < PLAY_Q_MAXSIZE
                   THEN play_q' = Append(play_q, h_enq[i].indata.data)
                   ELSE play_q' = play_q]_vars

\* the captured block came back through the relay into play_q
C9_Witness ==
    /\ h_emit # <<>>
    /\ h_enq[1].indata = [dtype |-> "int16", data |-> <<258, -2>>]
    /\ recv_res = "put"
    /\ play_q # <<>>
    /\ play_q[Len(play_q)] = <<258, -2>>

\* C10: every chunk the sender loop dequeues is passed to emission exactly
\* once, whether the emission succeeds or fails: the emissions are the
\* dequeued chunks in order (but for the one in hand), a chunk is never put
\* back into send_q, and the next emission is for the next queued chunk.
C10_EmitOncePerDequeue ==
    LET n == Len(h_emit) IN
    /\ Len(h_deq) = n + (IF net_pc = "emit" THEN 1 ELSE 0)
    /\ \A i \in 1..n : h_emit[i].b64 = h_deq[i]
    /\ net_pc = "emit" => net_b64 = h_deq[n + 1]
    /\ h_deq \o send_q = [i \in 1..Len(h_enq) |-> h_enq[i].b64]

\* an emission failed and the loop went on to emit the next, different chunk
C10_Witness ==
    /\ net_pc = "loop"
    /\ \E i \in 1..(Len(h_emit) - 1) :
        /\ ~h_emit[i].ok
        /\ h_emit[i + 1].b64 # h_emit[i].b64

\* C11: on every exit path of main's try block (the exit command clearing
\* running, a KeyboardInterrupt, an exception from opening or running the
\* input stream) control reaches the finally clause, and when main returns
\* running is false and sio.disconnect() has been attempted; a disconnect
\* that raises does not keep main from returning.
C11_ExitClearsRunningAndDisconnects ==
    /\ [](main_pc = "done" => (~running /\ disc \in {"ok", "failed"}))
    /\ [][ /\ \A how \in ExitPaths : MainLeaveStream(how) => main_pc' = "finally"
           /\ (MainOpenInput /\ ~in_open') => main_pc' = "finally"
           /\ MainFinally => (~running' /\ disc' = "none" /\ main_pc' = "disconnect")
           /\ MainDisconnect => (~running /\ disc' # "none" /\ main_pc' = "done")
           /\ (main_pc' = "done" /\ main_pc # "done") => MainDisconnect ]_vars

\* main returned after a failed disconnect although no exit command was ever
\* given and the input stream had been delivering blocks: it left the stream
\* by a KeyboardInterrupt or an exception
C11_Witness ==
    /\ main_pc = "done"
    /\ disc = "failed"
    /\ ~running
    /\ cmd_pc = "reading"
    /\ h_enq # <<>>

\* C12 as stated: both device streams, the input stream opened by main and
\* the output stream opened by the playback thread, are closed on every exit
\* path before main returns.
C12_StreamsClosedAtReturn == main_pc = "done" => (~in_open /\ ~out_open)

\* the part of C12 that main's own with block gives: the input stream is
\* closed whenever main is past its try block
C12_InputStreamClosedAtReturn ==
    main_pc \in {"finally", "disconnect", "done"} => ~in_open

\* C13 as stated: a remainder that is re-inserted without overflow goes to
\* the front of the playback order, so the next playback callback pops it
\* before any chunk that was queued behind the original chunk.
C13_RemainderGoesToFront ==
    [][(PbReinsert /\ Len(play_q) < PLAY_Q_MAXSIZE)
            => play_q' = << rem >> \o play_q]_vars

\* what the code does instead: put_nowait appends, the remainder is queued
\* behind every chunk that was waiting, and the next callback pops the
\* oldest of those first
C13_RemainderGoesToBack ==
    [][(PbReinsert /\ Len(play_q) < PLAY_Q_MAXSIZE /\ play_q # <<>>)
            => (play_q' = play_q \o << rem >> /\ Head(play_q') = Head(play_q))]_vars

\* C14 as stated: from the moment the command listener sets is_muted until
\* it clears it, the sender loop emits no audio-chunk event, not even for
\* chunks that were in send_q when the flag was set.
C14_NoEmitWhileMuted == [][NetEmit => ~is_muted]_vars

\* C14 as amended: the sender loop does not read is_muted.  While the flag
\* is set it goes on emitting, in order, the chunks that were inserted before
\* the flag was set and the at most one chunk of a capture callback that had
\* already passed the mute check; nothing captured after the flag was set is
\* emitted, so the emissions stop once that backlog is sent.
C14_OnlyBacklogEmittedWhileMuted ==
    /\ [](is_muted => (Len(h_enq) <= mute_enq + 1 /\ Len(h_emit) <= mute_enq + 1))
    /\ [][(NetEmit /\ is_muted) =>
            LET k == Len(h_emit')
            IN  /\ k = Len(h_emit) + 1
                /\ k <= mute_enq + 1
                /\ k <= Len(h_enq)
                /\ h_emit'[k].b64 = h_enq[k].b64]_vars

\* the chunk of a callback that was past the mute check when the flag was
\* set has been emitted while the flag stayed set, after an older chunk, and
\* a later callback returned at the mute check
C14_Witness ==
    /\ is_muted
    /\ mute_enq >= 1
    /\ muted_puts = 1
    /\ Len(h_emit) = mute_enq + 1
    /\ cap_res = "muted"

\* C15: once running is cleared the sender loop terminates, also when send_q
\* is empty and stays empty (the get is timed) and when every emission
\* fails; the playback thread's wait loop and main's wait loop exit as well.
\* A loop also ends when main returns and the process with it.
C15_LoopsExitOnceStopped ==
    /\ ~running ~> (net_pc = "done" \/ ~Alive)
    /\ ~running ~> (pt_pc = "done" \/ ~Alive)
    /\ ~running ~> (main_pc \in {"finally", "disconnect", "done"})

\* the sender loop, which never got a chunk, and the playback thread have
\* both ended on the flag while main is still in its finally clause
C15_Witness ==
    /\ ~running
    /\ net_pc = "done"
    /\ h_enq = <<>>
    /\ h_deq = <<>>
    /\ pt_pc = "done"
    /\ main_pc = "disconnect"
    /\ disc = "none"

\* every capture input with the chunk the callback's conversion and encoding
\* make of it
EncodedInputs ==
    { [indata |-> x, b64 |-> B64Encode(ToBytes(ToInt16(x)))] :
        x \in CaptureInputs \cup CoreCaptureInputs }

\* C16: FIFO on the send path.  The chunks the sender loop passes to
\* emission are, in the same relative order, chunks the capture callback
\* produced: the inserted chunks are produced ones in increasing order of
\* production, each at most once; send_q hands them out in the order of
\* insertion; and the i-th emission is the i-th inserted chunk.  No chunk is
\* emitted that was not captured, none twice, no two in reverse order.
C16_SendPathFifo ==
    /\ \A i \in 1..Len(h_enq) : h_enq[i].seq \in 1..n_cap
    /\ \A i, j \in 1..Len(h_enq) : i < j => h_enq[i].seq < h_enq[j].seq
    /\ \A i \in 1..Len(h_enq) :
            [indata |-> h_enq[i].indata, b64 |-> h_enq[i].b64] \in EncodedInputs
    /\ h_deq \o send_q = [i \in 1..Len(h_enq) |-> h_enq[i].b64]
    /\ Len(h_emit) <= Len(h_deq)
    /\ \A i \in 1..Len(h_emit) : h_emit[i].b64 = h_enq[i].b64

\* three chunks were emitted in the order of their capture, the third
\* produced chunk having been dropped at the full queue in between
C16_Witness ==
    /\ Len(h_emit) = 3
    /\ n_cap = 4
    /\ h_enq[3].seq = 4
    /\ h_emit[1].b64 # h_emit[2].b64

\* C17: the capture callback's only side effect is on send_q.  Any
\* invocation, muted or not, with or without a device status, its insert
\* accepted or dropped, leaves play_q, is_muted and running unchanged and
\* changes send_q by appending at most one chunk.
C17_CaptureTouchesOnlySendQ ==
    [][ /\ \A indata \in CaptureInputs \cup CoreCaptureInputs, status \in BOOLEAN :
            CaptureBegin(indata, status)
                => UNCHANGED << send_q, play_q, is_muted, running, stop_emit, outdata >>
        /\ CapturePut
                => /\ UNCHANGED << play_q, is_muted, running, stop_emit, outdata >>
                   /\ \/ send_q' = send_q /\ Len(send_q) = SEND_Q_MAXSIZE
                      \/ send_q' = Append(send_q, cap_b64) ]_vars

\* a callback's chunk was dropped at the full send_q while play_q held a
\* chunk and the flags were as before
C17_Witness ==
    /\ cap_pc = "idle"
    /\ cap_res = "full"
    /\ Len(send_q) = SEND_Q_MAXSIZE
    /\ play_q # <<>>
    /\ running
    /\ ~is_muted

\* C18: a remainder re-insert overflows only through a race with the
\* receiver handler.  When the receiver inserts nothing between the pop of
\* a chunk and the re-insert of its remainder, the re-insert succeeds and
\* every sample popped is in the output or back in play_q; when play_q is
\* full at the re-insert, the receiver has filled the freed slot in that
\* window and the remainder's samples are lost.
C18_ReinsertOverflowsOnlyByRace ==
    [][PbReinsert =>
        /\ RemainderFacts
        /\ Concat(pb_popped) = Concat(outdata') \o rem
        /\ ~pb_win => (pb_re' = "put" /\ play_q' = Append(play_q, rem))
        /\ Len(play_q) = PLAY_Q_MAXSIZE
              => (pb_win /\ pb_re' = "full" /\ play_q' = play_q)
        /\ pb_re' = "full" => Len(play_q) = PLAY_Q_MAXSIZE ]_vars

\* the receiver refilled the full queue after the pop and the remainder was
\* dropped
C18_Witness ==
    /\ pb_pc = "idle"
    /\ pb_re = "full"
    /\ pb_win
    /\ rem # <<>>
    /\ Len(pb_q0) = PLAY_Q_MAXSIZE
    /\ Len(play_q) = PLAY_Q_MAXSIZE

\* C19: the sender loop does not drain send_q on shutdown.  After running
\* is cleared it makes at most one more emission, for a chunk it was waiting
\* for or had already dequeued, and once it has exited nothing more is
\* dequeued or emitted: the chunks left in send_q are never emitted.
C19_NoDrainOnShutdown ==
    /\ [](~running => Len(h_emit) <= stop_emit + 1)
    /\ [](net_pc = "done" => (~running /\ Len(h_emit) = Len(h_deq)))
    /\ [][net_pc = "done"
            => (net_pc' = "done" /\ h_emit' = h_emit /\ h_deq' = h_deq
                /\ Len(send_q') >= Len(send_q))]_vars

\* the loop has exited after its one emission past the clearing of running
\* and has left a chunk in send_q
C19_Witness ==
    /\ net_pc = "done"
    /\ ~running
    /\ Len(h_emit) = stop_emit + 1
    /\ send_q # <<>>

RECURSIVE IsPrefix(_, _)
\* s is an initial part of t
IsPrefix(s, t) ==
    IF s = <<>> THEN TRUE
    ELSE t # <<>> /\ Head(s) = Head(t) /\ IsPrefix(Tail(s), Tail(t))

\* C20: a playback callback invocation re-inserts at most one remainder,
\* as its last queue operation: after the re-insert the output is full and
\* the callback returns.  With no concurrent receiver insert the chunks in
\* play_q after the callback are never more than before it, and the callback
\* ends after popping at most the chunks that were present.
C20_OneReinsertLast ==
    [][ /\ PbReinsert
            => (pb_re = "none" /\ pb_re' # "none" /\ pb_pc' = "idle"
                /\ got = pb_frames * CHANNELS)
        /\ ~(pb_pc # "idle" /\ pb_re # "none")
        /\ (PbReturns /\ ~pb_raced')
            => /\ Len(play_q') <= Len(pb_q0')
               /\ Len(pb_popped') <= Len(pb_q0')
               /\ IsPrefix(pb_popped', pb_q0')
               /\ Len(play_q') = Len(pb_q0') - Len(pb_popped')
                                    + (IF pb_re' = "put" THEN 1 ELSE 0) ]_vars

\* a callback popped one of two queued chunks and put its remainder back:
\* play_q holds as many chunks as before
C20_Witness ==
    /\ pb_pc = "idle"
    /\ ~pb_raced
    /\ pb_re = "put"
    /\ Len(pb_q0) = 2
    /\ Len(pb_popped) = 1
    /\ Len(play_q) = 2

====
